---- MODULE Spec2Model ----
(***************************************************************************)
(* Model of the supplier risk-analysis assistant (safebot):                *)
(*   server/api/routes/rag.py        analyze_risk (the /analyze handler)   *)
(*   server/ingestion/utils          call_llm, parse_risk_assessment, ...  *)
(* Strings that the code inspects (strip, slicing, "in", sorted) are       *)
(* sequences of Unicode code points, so that Python's str operations are   *)
(* computed and not assumed.                                               *)
(***************************************************************************)
EXTENDS Integers, Sequences, FiniteSets, TLC

VARIABLES store, pc, data, user_query, vendor_ids, hypothetical_analysis,
          ssr_embedding, search_result, scored_chunks, assessment_text,
          calls, response

\* one call of call_llm taken alone: its HTTP exchange and what it gives back
VARIABLES llm_exchange, llm_result

\* chunk_and_embed_document and delete_document_chunks: the position of the
\* running ingest, its arguments and locals (chunk_i is the loop index i),
\* the external calls it made, its outcome, the number of ingests started,
\* the next fresh point id, the last write sent to the collection and the
\* batches of points the collection accepted
VARIABLES ingest_pc, ingest_args, raw_text, chunks, chunk_i, points,
          ingest_calls, ingest_result, ingest_run, next_id, last_op, batches

assessVars == <<pc, data, user_query, vendor_ids, hypothetical_analysis,
                ssr_embedding, search_result, scored_chunks, assessment_text,
                calls, response>>

\* several analyze_risk requests in flight at once: the locals of each
VARIABLES requests

gatewayVars == <<llm_exchange, llm_result>>

concurrentVars == <<requests>>

ingestVars == <<ingest_pc, ingest_args, raw_text, chunks, chunk_i, points,
                ingest_calls, ingest_result, ingest_run, next_id, last_op,
                batches>>

vars == <<store, pc, data, user_query, vendor_ids, hypothetical_analysis,
          ssr_embedding, search_result, scored_chunks, assessment_text,
          calls, response, gatewayVars, ingestVars, concurrentVars>>

(***************************************************************************)
(* Bounds of the model.                                                    *)
(***************************************************************************)
\* number of candidate points of the collection (the store is any subset)
NumPoints == 9
\* how far before the end of the scan window a generated text may place its
\* first keyword
PadSpan == 8
\* number of calls of chunk_and_embed_document in one behaviour
MaxRuns == 2
\* largest number of pieces the text splitter returns
MaxChunks == 2
\* number of analyze_risk requests in flight at once
NumRequests == 2

(***************************************************************************)
(* Program constants.                                                      *)
(***************************************************************************)
\* qdrant.search(..., limit=8, ...)
SearchLimit == 8
\* if score < 0.10: continue      (scores are held in hundredths)
ScoreThreshold == 10
\* scored_chunks[:3]
TopK == 3
\* assessment_text[:50]
ScanWindow == 50

(***************************************************************************)
(* String literals of the code, as code points.                            *)
(***************************************************************************)
\* "High"
StrHigh == <<72, 105, 103, 104>>
\* "Low"
StrLow == <<76, 111, 119>>
\* "Unknown"
StrUnknown == <<85, 110, 107, 110, 111, 119, 110>>
\* "No relevant material found."
MsgNoMaterial == <<78, 111, 32, 114, 101, 108, 101, 118, 97, 110, 116, 32,
                   109, 97, 116, 101, 114, 105, 97, 108, 32, 102, 111, 117,
                   110, 100, 46>>
\* "No sufficiently relevant content found."
MsgNotRelevant == <<78, 111, 32, 115, 117, 102, 102, 105, 99, 105, 101, 110,
                    116, 108, 121, 32, 114, 101, 108, 101, 118, 97, 110, 116,
                    32, 99, 111, 110, 116, 101, 110, 116, 32, 102, 111, 117,
                    110, 100, 46>>
\* "\n\n---\n\n"
ContextSeparator == <<10, 10, 45, 45, 45, 10, 10>>

(***************************************************************************)
(* Python str / list operations used by the handler.                       *)
(***************************************************************************)
Min(a, b) == IF a <= b THEN a ELSE b

\* the characters str.strip() removes (str.isspace)
Whitespace == {9, 10, 11, 12, 13, 28, 29, 30, 31, 32, 133, 160}

RECURSIVE LStrip(_)
LStrip(s) ==
    IF s # <<>> /\ Head(s) \in Whitespace THEN LStrip(Tail(s)) ELSE s

RECURSIVE RStrip(_)
RStrip(s) ==
    IF s # <<>> /\ s[Len(s)] \in Whitespace
    THEN RStrip(SubSeq(s, 1, Len(s) - 1))
    ELSE s

\* the query used as received
Strip_None(s) == s

\* s.strip()
Strip(s) == RStrip(LStrip(s))

\* s[:n]
Take(s, n) == SubSeq(s, 1, Min(n, Len(s)))

\* sub in s
Contains(sub, s) ==
    \E i \in 0..(Len(s) - Len(sub)) : SubSeq(s, i + 1, i + Len(sub)) = sub

\* a < b for two str values (code point order, a proper prefix is smaller)
RECURSIVE StrLess(_, _)
StrLess(a, b) ==
    IF b = <<>> THEN FALSE
    ELSE IF a = <<>> THEN TRUE
    ELSE IF Head(a) # Head(b) THEN Head(a) < Head(b)
    ELSE StrLess(Tail(a), Tail(b))

\* sorted(list(S)) for a set S of str
RECURSIVE Sorted(_)
Sorted(S) ==
    IF S = {} THEN <<>>
    ELSE LET m == CHOOSE x \in S : \A y \in S \ {x} : StrLess(x, y)
         IN  <<m>> \o Sorted(S \ {m})

\* sep.join(blocks)
RECURSIVE Join(_, _)
Join(sep, blocks) ==
    IF blocks = <<>> THEN <<>>
    ELSE IF Len(blocks) = 1 THEN blocks[1]
    ELSE blocks[1] \o sep \o Join(sep, Tail(blocks))

\* d.get(key, default) for a dict d
Get(d, key, default) == IF key \in DOMAIN d THEN d[key] ELSE default

(***************************************************************************)
(* Language Model Gateway: server/ingestion/utils call_llm.                *)
(* An HTTP exchange is [raised |-> TRUE, cause |-> c] when requests.post   *)
(* or r.json() raises, else [raised |-> FALSE, status |-> n, json |-> d]   *)
(* with d the decoded body (a dict: a function on its keys).               *)
(***************************************************************************)
\* Python's None
None == [none |-> TRUE]

\* a leaf of the decoded body is a typed value: a str or JSON null
PyStr(t) == [kind |-> "str", value |-> t]

PyNone == [kind |-> "null"]

\* [p.get("text", "") for p in parts]
PartTexts(parts) ==
    [k \in 1..Len(parts) |-> Get(parts[k], "text", PyStr(<<>>))]

\* "".join(texts) for str items
RECURSIVE JoinParts(_)
JoinParts(texts) ==
    IF texts = <<>> THEN <<>>
    ELSE Head(texts).value \o JoinParts(Tail(texts))

\* the exception call_llm raises: Exception(f"LLM call error: {e}"), a
\* plain Exception whatever was caught
LLMCallError(e) ==
    [ok |-> FALSE, type |-> "Exception", error |-> <<"LLM call error: ", e>>]

\* the body of the try block once resp = r.json() is known
CallLLMBody(resp) ==
    LET hasChoices == "choices" \in DOMAIN resp /\ resp["choices"] # <<>>
        choice == resp["choices"][1]
        fromError ==
            IF "error" \in DOMAIN resp
            THEN LLMCallError(resp["error"])
            ELSE LLMCallError("Unknown LLM response format")
    IN  IF hasChoices
        THEN IF "message" \in DOMAIN choice
                /\ "content" \in DOMAIN choice["message"]
             THEN [ok |-> TRUE, value |-> choice["message"]["content"]]
             ELSE IF "text" \in DOMAIN choice
             THEN [ok |-> TRUE, value |-> choice["text"]]
             ELSE IF "content" \in DOMAIN choice
                     /\ choice["content"].kind = "list"
             THEN IF \A k \in 1..Len(choice["content"].parts) :
                        PartTexts(choice["content"].parts)[k].kind = "str"
                  THEN [ok |-> TRUE,
                        value |-> PyStr(JoinParts(
                                     PartTexts(choice["content"].parts)))]
                  ELSE LLMCallError("TypeError")
             ELSE IF "content" \in DOMAIN choice
                     /\ choice["content"].kind = "str"
             THEN [ok |-> TRUE, value |-> choice["content"]]
             ELSE fromError
        ELSE fromError

\* call_llm(messages, temperature, max_tokens) for one HTTP exchange
CallLLM(exchange) ==
    IF exchange.raised THEN LLMCallError(exchange.cause)
    ELSE CallLLMBody(exchange.json)

(***************************************************************************)
(* parse_risk_assessment                                                   *)
(***************************************************************************)
\* the scan is not limited to the first 50 characters
ParseRiskAssessment_WholeText(text) ==
    IF Contains(StrHigh, text) THEN "High"
    ELSE IF Contains(StrLow, text) THEN "Low"
    ELSE "Moderate"

ParseRiskAssessment(text) ==
    IF Contains(StrHigh, Take(text, ScanWindow)) THEN "High"
    ELSE IF Contains(StrLow, Take(text, ScanWindow)) THEN "Low"
    ELSE "Moderate"

(***************************************************************************)
(* Embedding Provider: embedder.embed_query.  A vector is named by a       *)
(* number in 0..EmbedSpace-1; the provider is a deterministic function of  *)
(* the text.                                                               *)
(***************************************************************************)
RECURSIVE CodeSum(_)
CodeSum(s) == IF s = <<>> THEN 0 ELSE Head(s) + CodeSum(Tail(s))

\* cosine similarity of two vectors, in hundredths (Distance.COSINE)
SimilarityTable ==
    << <<100,  42,   9,  15,  28,  60>>,
       << 42, 100,   3,  10,   5,  31>>,
       <<  9,   3, 100,  -2,   0,   7>>,
       << 15,  10,  -2, 100,  55,  12>>,
       << 28,   5,   0,  55, 100,  90>>,
       << 60,  31,   7,  12,  90, 100>> >>

EmbedSpace == Len(SimilarityTable)

EmbedQuery(text) == CodeSum(text) % EmbedSpace

Similarity(v, w) == SimilarityTable[v + 1][w + 1]

(***************************************************************************)
(* Vector Store: the qdrant collection.  A point is                        *)
(* [id, vector, payload]; a payload is a dict.                             *)
(***************************************************************************)
\* FieldCondition(key=k, match=MatchValue(value=v)) on one payload
ConditionHolds(cond, payload) ==
    cond.key \in DOMAIN payload /\ payload[cond.key] = cond.match

\* Filter(must=[...]): every condition holds; None: no restriction
FilterHolds(filter, payload) ==
    IF filter = None THEN TRUE
    ELSE \A k \in 1..Len(filter.must) : ConditionHolds(filter.must[k], payload)

ScoredPoint(p, q) ==
    [id |-> p.id, score |-> Similarity(q, p.vector), payload |-> p.payload]

\* the rankings search may return for the candidate set S: descending score,
\* at most n hits, points of equal score in any order
RECURSIVE Rankings(_, _, _)
Rankings(S, q, n) ==
    IF S = {} \/ n = 0 THEN {<<>>}
    ELSE LET best == {p \in S : \A o \in S :
                          Similarity(q, o.vector) <= Similarity(q, p.vector)}
         IN  UNION {{<<ScoredPoint(p, q)>> \o r :
                        r \in Rankings(S \ {p}, q, n - 1)} : p \in best}

\* qdrant.search(collection, query_vector, limit, query_filter)
Search(collection, query_vector, limit, query_filter) ==
    Rankings({p \in collection : FilterHolds(query_filter, p.payload)},
             query_vector, limit)

\* qdrant.search raising (connection lost, collection missing, ...)
SearchErrors == {"ResponseHandlingException"}

(***************************************************************************)
(* The points the collection may hold and the inputs of a request.         *)
(***************************************************************************)
\* "Z.doc", "b.txt", "a.pdf"
SourceNames == << <<90, 46, 100, 111, 99>>, <<98, 46, 116, 120, 116>>,
                  <<97, 46, 112, 100, 102>> >>

PointVectors == <<0, 1, 3, 4, 5>>

\* the keys present in the payload of candidate point i
PayloadKeys(i) ==
    (IF i % 6 = 0 THEN {} ELSE {"text"})
    \cup (IF i % 4 = 0 THEN {} ELSE {"source"})
    \cup (IF i % 7 = 0 THEN {} ELSE {"vendor_id"})

\* candidate point i: text "t<i>", a source, a vendor, a vector
CandidatePoint(i) ==
    [id |-> i,
     vector |-> PointVectors[(i % Len(PointVectors)) + 1],
     payload |-> [k \in PayloadKeys(i) |->
                    CASE k = "text" -> <<116, 48 + i>>
                      [] k = "source" -> SourceNames[i % 4]
                      [] k = "vendor_id" -> IF i % 2 = 1 THEN "X" ELSE "Y"]]

Universe == {CandidatePoint(i) : i \in 1..NumPoints}

\* "", " \t", "q", " q "
Queries == {<<>>, <<32, 9>>, <<113>>, <<32, 113, 32>>}

VendorIdLists == {<<>>, <<"X">>, <<"Y">>, <<"Z">>, <<"X", "Y">>, <<"X", "X">>}

\* "hA", "hB": hypothetical paragraphs the model may generate
HypoTexts == {<<104, 65>>, <<104, 66>>}

\* "High risk due to delays", "Low risk because stable",
\* "The situation requires care", " Low"
FinalTexts ==
    {<<72, 105, 103, 104, 32, 114, 105, 115, 107, 32, 100, 117, 101, 32,
       116, 111, 32, 100, 101, 108, 97, 121, 115>>,
     <<76, 111, 119, 32, 114, 105, 115, 107, 32, 98, 101, 99, 97, 117, 115,
       101, 32, 115, 116, 97, 98, 108, 101>>,
     <<84, 104, 101, 32, 115, 105, 116, 117, 97, 116, 105, 111, 110, 32,
       114, 101, 113, 117, 105, 114, 101, 115, 32, 99, 97, 114, 101>>,
     <<32, 76, 111, 119>>}

\* the HTTP exchanges of one model call: a choices[0].message.content
\* answer for each text, an answer whose content is null, an error object,
\* a transport failure
Exchanges(texts) ==
    {[raised |-> FALSE, status |-> 200,
      json |-> [choices |-> <<[message |-> [content |-> PyStr(t)]]>>]] :
        t \in texts}
    \cup {[raised |-> FALSE, status |-> 200,
           json |-> [choices |-> <<[message |-> [content |-> PyNone]]>>]],
          [raised |-> FALSE, status |-> 429,
           json |-> [error |-> "rate limited"]],
          [raised |-> TRUE, cause |-> "ConnectionError"]}

(***************************************************************************)
(* analyze_risk (server/api/routes/rag.py), one action per stretch of the  *)
(* handler between two external calls.                                     *)
(***************************************************************************)
\* raise HTTPException(status_code, detail)
HTTPException(status_code, detail) ==
    [kind |-> "HTTPException", status_code |-> status_code, detail |-> detail]

\* return {"risk_level": ..., "evidence": ..., "summary": ...}
Verdict(risk_level, evidence, summary) ==
    [kind |-> "return",
     body |-> [risk_level |-> risk_level, evidence |-> evidence,
               summary |-> summary]]

\* return {"risk_level": "Low", "evidence": [], "summary": "No relevant
\* material found."}
NoMaterialVerdict == Verdict("Low", <<>>, MsgNoMaterial)

\* return {"risk_level": "Low", "evidence": [], "summary": "No sufficiently
\* relevant content found."}
NotRelevantVerdict == Verdict("Low", <<>>, MsgNotRelevant)

\* the handler has not answered yet
NoResponse == [kind |-> "pending"]

\* an exception no handler catches
Unhandled(e) == [kind |-> "unhandled", exception |-> e]

\* the last call returned or raised
SetOutcome(log, o) == [log EXCEPT ![Len(log)].outcome = o]

\* the last call raised the exception whose str() is the pieces e
SetRaised(log, e) ==
    LET call == log[Len(log)]
    IN  [log EXCEPT ![Len(log)] =
            [k \in DOMAIN call \cup {"error"} |->
                IF k = "error" THEN e
                ELSE IF k = "outcome" THEN "raised" ELSE call[k]]]

\* no filter is built
VendorFilter_None(vids) == None

\* only the first vendor is put in the filter
VendorFilter_First(vids) ==
    IF vids # <<>>
    THEN [must |-> <<[key |-> "vendor_id", match |-> vids[1]]>>]
    ELSE None

\* SSR Step 3: the filter for the selected vendors
VendorFilter(vids) ==
    IF vids # <<>>
    THEN [must |-> [k \in 1..Len(vids) |->
                      [key |-> "vendor_id", match |-> vids[k]]]]
    ELSE None

\* no threshold: every hit is kept
RECURSIVE ScoredChunks_NoThreshold(_)
ScoredChunks_NoThreshold(hits) ==
    IF hits = <<>> THEN <<>>
    ELSE << <<Get(Head(hits).payload, "text", <<>>),
              Get(Head(hits).payload, "source", StrUnknown)>> >>
         \o ScoredChunks_NoThreshold(Tail(hits))

\* a hit at the threshold is dropped too (score <= 0.10)
RECURSIVE ScoredChunks_Strict(_)
ScoredChunks_Strict(hits) ==
    IF hits = <<>> THEN <<>>
    ELSE IF Head(hits).score <= ScoreThreshold
         THEN ScoredChunks_Strict(Tail(hits))
         ELSE << <<Get(Head(hits).payload, "text", <<>>),
                   Get(Head(hits).payload, "source", StrUnknown)>> >>
              \o ScoredChunks_Strict(Tail(hits))

\* SSR Step 5: the (text, source) pairs of the hits that pass the threshold
RECURSIVE ScoredChunks(_)
ScoredChunks(hits) ==
    IF hits = <<>> THEN <<>>
    ELSE LET hit == Head(hits)
             text == Get(hit.payload, "text", <<>>)
         IN  IF hit.score < ScoreThreshold
             THEN ScoredChunks(Tail(hits))
             ELSE << <<text, Get(hit.payload, "source", StrUnknown)>> >>
                  \o ScoredChunks(Tail(hits))

\* [chunk for chunk, src in scored_chunks[:3]]
ContextBlocks(scored) == [k \in 1..Min(TopK, Len(scored)) |-> scored[k][1]]

\* the sources of the kept chunks, as they come
Evidence_NoDedup(scored) ==
    [k \in 1..Min(TopK, Len(scored)) |-> scored[k][2]]

\* sorted(list({src for _, src in scored_chunks[:3]}))
Evidence(scored) ==
    Sorted({scored[k][2] : k \in 1..Min(TopK, Len(scored))})

SSRCall(query) ==
    [svc |-> "llm",
     messages |-> <<[role |-> "user",
                     content |-> [template |-> "ssr_prompt",
                                  query |-> query]]>>,
     temperature |-> "0.7", max_tokens |-> 200, outcome |-> "pending"]

EmbedCall(text) == [svc |-> "embed", text |-> text, outcome |-> "pending"]

SearchCall(query_vector, query_filter) ==
    [svc |-> "search", query_vector |-> query_vector, limit |-> SearchLimit,
     query_filter |-> query_filter, outcome |-> "pending"]

FinalCall(full_context, query) ==
    [svc |-> "llm",
     messages |->
        <<[role |-> "system",
           content |-> [literal |->
               "Provide risk assessment with level, summary, and evidence."]],
          [role |-> "user",
           content |-> [template |-> "RISK_TEMPLATE",
                        context |-> full_context, query |-> query]]>>,
     temperature |-> "0", max_tokens |-> 200, outcome |-> "pending"]

\* no group of concurrent requests is looked at
NoRequests == requests = <<>>

\* no call of call_llm is looked at on its own
GatewayIdle ==
    /\ llm_exchange = None
    /\ llm_result = None

\* no ingest has run and nothing was written to or deleted from the collection
IngestIdle ==
    /\ ingest_pc = "idle"
    /\ ingest_args = None
    /\ raw_text = PyNone
    /\ chunks = <<>>
    /\ chunk_i = 0
    /\ points = <<>>
    /\ ingest_calls = <<>>
    /\ ingest_result = NoResponse
    /\ ingest_run = 0
    /\ next_id = 1
    /\ last_op = [op |-> "none"]
    /\ batches = {}

\* no request is being handled
AssessIdle ==
    /\ pc = "idle"
    /\ data = None
    /\ user_query = <<>>
    /\ vendor_ids = <<>>
    /\ hypothetical_analysis = <<>>
    /\ ssr_embedding = -1
    /\ search_result = <<>>
    /\ scored_chunks = <<>>
    /\ assessment_text = <<>>
    /\ calls = <<>>
    /\ response = NoResponse

Init ==
    /\ NoRequests
    /\ GatewayIdle
    /\ IngestIdle
    /\ store \in SUBSET Universe
    /\ pc = "idle"
    /\ data = None
    /\ user_query = <<>>
    /\ vendor_ids = <<>>
    /\ hypothetical_analysis = <<>>
    /\ ssr_embedding = -1
    /\ search_result = <<>>
    /\ scored_chunks = <<>>
    /\ assessment_text = <<>>
    /\ calls = <<>>
    /\ response = NoResponse

\* lines 11-21: strip the query, reject an empty one, else start the first
\* model call
Receive(query, vids) ==
    /\ pc = "idle"
    /\ data' = [query |-> query, vendor_ids |-> vids]
    /\ user_query' = Strip(query)
    /\ vendor_ids' = vids
    /\ IF Strip(query) = <<>>
       THEN /\ response' = HTTPException(400, <<"Query cannot be empty.">>)
            /\ pc' = "done"
            /\ calls' = calls
       ELSE /\ response' = response
            /\ pc' = "ssr"
            /\ calls' = Append(calls, SSRCall(Strip(query)))
    /\ UNCHANGED <<store, hypothetical_analysis, ssr_embedding,
                   search_result, scored_chunks, assessment_text>>
    /\ UNCHANGED <<gatewayVars, ingestVars, concurrentVars>>

\* embed_query raises at once on an argument that is not a str
\* (text.replace on None); the call is logged with an empty text
EmbedCallRejected ==
    [svc |-> "embed", text |-> <<>>, outcome |-> "raised",
     error |-> <<"AttributeError">>]

\* lines 20-26: the first model call ends; on success start the embedding
SSRReturn(exchange) ==
    /\ pc = "ssr"
    /\ LET r == CallLLM(exchange)
       IN  IF r.ok /\ r.value.kind = "str"
           THEN /\ hypothetical_analysis' = r.value.value
                /\ calls' = Append(SetOutcome(calls, "ok"),
                                   EmbedCall(r.value.value))
                /\ pc' = "embed"
                /\ response' = response
           ELSE IF r.ok
           THEN /\ hypothetical_analysis' = hypothetical_analysis
                /\ calls' = Append(SetOutcome(calls, "ok"), EmbedCallRejected)
                /\ pc' = "done"
                /\ response' = Unhandled("AttributeError")
           ELSE /\ hypothetical_analysis' = hypothetical_analysis
                /\ calls' = SetRaised(calls, r.error)
                /\ pc' = "done"
                /\ response' = HTTPException(500,
                                  <<"SSR generation error: ">> \o r.error)
    /\ UNCHANGED <<store, data, user_query, vendor_ids, ssr_embedding,
                   search_result, scored_chunks, assessment_text>>
    /\ UNCHANGED <<gatewayVars, ingestVars, concurrentVars>>

\* the user query is embedded in place of the hypothetical paragraph
EmbedReturn_Query(ok) ==
    /\ pc = "embed"
    /\ IF ok
       THEN /\ ssr_embedding' = EmbedQuery(user_query)
            /\ calls' = Append(SetOutcome(calls, "ok"),
                           SearchCall(EmbedQuery(user_query),
                                      VendorFilter(vendor_ids)))
            /\ pc' = "search"
            /\ response' = response
       ELSE /\ ssr_embedding' = ssr_embedding
            /\ calls' = SetRaised(calls, <<"EmbeddingError">>)
            /\ pc' = "done"
            /\ response' = Unhandled("EmbeddingError")
    /\ UNCHANGED <<store, data, user_query, vendor_ids, hypothetical_analysis,
                   search_result, scored_chunks, assessment_text>>
    /\ UNCHANGED <<gatewayVars, ingestVars, concurrentVars>>

\* lines 26-47: the embedding ends; build the vendor filter and start the
\* search.  embed_query is called outside any try block.
EmbedReturn(ok) ==
    /\ pc = "embed"
    /\ IF ok
       THEN /\ ssr_embedding' = EmbedQuery(hypothetical_analysis)
            /\ calls' = Append(SetOutcome(calls, "ok"),
                           SearchCall(EmbedQuery(hypothetical_analysis),
                                      VendorFilter(vendor_ids)))
            /\ pc' = "search"
            /\ response' = response
       ELSE /\ ssr_embedding' = ssr_embedding
            /\ calls' = SetRaised(calls, <<"EmbeddingError">>)
            /\ pc' = "done"
            /\ response' = Unhandled("EmbeddingError")
    /\ UNCHANGED <<store, data, user_query, vendor_ids, hypothetical_analysis,
                   search_result, scored_chunks, assessment_text>>
    /\ UNCHANGED <<gatewayVars, ingestVars, concurrentVars>>

\* the final model call, lines 70-87
StartFinalCall(hits) ==
    /\ calls' = Append(SetOutcome(calls, "ok"),
                       FinalCall(Join(ContextSeparator,
                                      ContextBlocks(ScoredChunks(hits))),
                                 user_query))
    /\ pc' = "llm"
    /\ response' = response

\* the test "if not search_result" is missing
SearchOk_NoEmptyExit(hits) ==
    /\ search_result' = hits
    /\ scored_chunks' = ScoredChunks(hits)
    /\ IF ScoredChunks(hits) = <<>>
       THEN /\ calls' = SetOutcome(calls, "ok")
            /\ pc' = "done"
            /\ response' = NotRelevantVerdict
       ELSE StartFinalCall(hits)

\* the test "if not scored_chunks" is missing
SearchOk_NoThresholdExit(hits) ==
    /\ search_result' = hits
    /\ IF hits = <<>>
       THEN /\ scored_chunks' = scored_chunks
            /\ calls' = SetOutcome(calls, "ok")
            /\ pc' = "done"
            /\ response' = NoMaterialVerdict
       ELSE /\ scored_chunks' = ScoredChunks(hits)
            /\ StartFinalCall(hits)

\* lines 41-87, search succeeded with the ranking hits
SearchOk(hits) ==
    /\ search_result' = hits
    /\ IF hits = <<>>
       THEN /\ scored_chunks' = scored_chunks
            /\ calls' = SetOutcome(calls, "ok")
            /\ pc' = "done"
            /\ response' = NoMaterialVerdict
       ELSE /\ scored_chunks' = ScoredChunks(hits)
            /\ IF ScoredChunks(hits) = <<>>
               THEN /\ calls' = SetOutcome(calls, "ok")
                    /\ pc' = "done"
                    /\ response' = NotRelevantVerdict
               ELSE StartFinalCall(hits)

\* a failed search is answered with the verdict of an empty search
SearchRaised_Default(e) ==
    /\ search_result' = search_result
    /\ scored_chunks' = scored_chunks
    /\ calls' = SetRaised(calls, <<e>>)
    /\ pc' = "done"
    /\ response' = NoMaterialVerdict

\* lines 41-49, search raised
SearchRaised(e) ==
    /\ search_result' = search_result
    /\ scored_chunks' = scored_chunks
    /\ calls' = SetRaised(calls, <<e>>)
    /\ pc' = "done"
    /\ response' = HTTPException(500, <<"Vector DB search error: ", e>>)

\* lines 41-87: the search ends; early exits, threshold, top 3, context,
\* then start the final model call
SearchReturn ==
    /\ pc = "search"
    /\ LET call == calls[Len(calls)]
       IN  \/ \E hits \in Search(store, call.query_vector, call.limit,
                                 call.query_filter) : SearchOk(hits)
           \/ \E e \in SearchErrors : SearchRaised(e)
    /\ UNCHANGED <<store, data, user_query, vendor_ids, hypothetical_analysis,
                   ssr_embedding, assessment_text>>
    /\ UNCHANGED <<gatewayVars, ingestVars, concurrentVars>>

\* a failed final model call is issued again instead of being reported
LLMReturn_Retry(exchange) ==
    /\ pc = "llm"
    /\ LET r == CallLLM(exchange)
       IN  IF r.ok /\ r.value.kind = "str"
           THEN /\ assessment_text' = r.value.value
                /\ calls' = SetOutcome(calls, "ok")
                /\ response' = Verdict(ParseRiskAssessment(r.value.value),
                                       Evidence(scored_chunks), r.value.value)
                /\ pc' = "done"
           ELSE IF r.ok
           THEN /\ assessment_text' = assessment_text
                /\ calls' = SetOutcome(calls, "ok")
                /\ response' = Unhandled("TypeError")
                /\ pc' = "done"
           ELSE /\ assessment_text' = assessment_text
                /\ calls' = SetRaised(calls, r.error)
                /\ response' = response
                /\ pc' = "llm"
    /\ UNCHANGED <<store, data, user_query, vendor_ids, hypothetical_analysis,
                   ssr_embedding, search_result, scored_chunks>>
    /\ UNCHANGED <<gatewayVars, ingestVars, concurrentVars>>

\* lines 83-106: the final model call ends; parse the level, build the
\* evidence list and return
LLMReturn(exchange) ==
    /\ pc = "llm"
    /\ LET r == CallLLM(exchange)
       IN  IF r.ok /\ r.value.kind = "str"
           THEN /\ assessment_text' = r.value.value
                /\ calls' = SetOutcome(calls, "ok")
                /\ response' = Verdict(ParseRiskAssessment(r.value.value),
                                       Evidence(scored_chunks), r.value.value)
           ELSE IF r.ok
           THEN \* assessment_text[:50] on None raises TypeError
                /\ assessment_text' = assessment_text
                /\ calls' = SetOutcome(calls, "ok")
                /\ response' = Unhandled("TypeError")
           ELSE /\ assessment_text' = assessment_text
                /\ calls' = SetRaised(calls, r.error)
                /\ response' = HTTPException(500, <<"LLM error: ">> \o r.error)
    /\ pc' = "done"
    /\ UNCHANGED <<store, data, user_query, vendor_ids, hypothetical_analysis,
                   ssr_embedding, search_result, scored_chunks>>
    /\ UNCHANGED <<gatewayVars, ingestVars, concurrentVars>>

Next ==
    \/ \E query \in Queries, vids \in VendorIdLists : Receive(query, vids)
    \/ \E exchange \in Exchanges(HypoTexts) : SSRReturn(exchange)
    \/ \E ok \in BOOLEAN : EmbedReturn(ok)
    \/ SearchReturn
    \/ \E exchange \in Exchanges(FinalTexts) : LLMReturn(exchange)

Spec == Init /\ [][Next]_vars

\* every external call eventually returns or fails, and a request arrives
FairSpec == Spec /\ WF_vars(Next)

(***************************************************************************)
(* Properties of analyze_risk.                                             *)
(***************************************************************************)
\* the vector search of this request has returned a ranking
SearchReturned ==
    Len(calls) >= 3 /\ calls[3].svc = "search" /\ calls[3].outcome = "ok"

CountCalls(svc) == Cardinality({i \in 1..Len(calls) : calls[i].svc = svc})

\* C1: when the first model call and the embedding succeeded and the search
\* returned zero matches, the handler returns (a normal return, not an error)
\* exactly {risk_level: "Low", evidence: [], summary: "No relevant material
\* found."}, for every non-empty query and every vendor_ids.
C1_NoMatchVerdict ==
    (SearchReturned /\ search_result = <<>>)
    => /\ pc = "done"
       /\ response = [kind |-> "return",
                      body |-> [risk_level |-> "Low", evidence |-> <<>>,
                                summary |-> MsgNoMaterial]]

\* a request with a padded query and a vendor list gets the empty-result
\* verdict although the collection holds points
C1_Witness ==
    /\ SearchReturned /\ search_result = <<>>
    /\ store # {} /\ data.query # user_query /\ data.vendor_ids # <<>>
    /\ response.kind = "return"

\* C2: when the search returned 1 to 8 matches and every one of them scores
\* below 0.10, the handler returns exactly {risk_level: "Low", evidence: [],
\* summary: "No sufficiently relevant content found."}, whatever the payloads.
C2_AllBelowThresholdVerdict ==
    (/\ SearchReturned
     /\ search_result # <<>>
     /\ \A i \in 1..Len(search_result) : search_result[i].score < 10)
    => /\ pc = "done"
       /\ Len(search_result) <= 8
       /\ response = [kind |-> "return",
                      body |-> [risk_level |-> "Low", evidence |-> <<>>,
                                summary |-> MsgNotRelevant]]

\* eight weak matches, one of them without text and one without source
C2_Witness ==
    /\ SearchReturned
    /\ Len(search_result) = 8
    /\ \A i \in 1..Len(search_result) : search_result[i].score < 10
    /\ \E i \in 1..Len(search_result) :
           "text" \notin DOMAIN search_result[i].payload
    /\ \E i \in 1..Len(search_result) :
           "source" \notin DOMAIN search_result[i].payload
    /\ response.kind = "return"

\* C3: in every returned verdict the evidence list is strictly ascending
\* (sorted, no duplicate source name) and has at most 3 elements.
C3_EvidenceSortedDistinct ==
    response.kind = "return"
    => LET ev == response.body.evidence
       IN  /\ Len(ev) <= 3
           /\ \A i, j \in 1..Len(ev) : i < j => StrLess(ev[i], ev[j])

\* three kept matches: the first two share a source, the third has no source
\* field and its default sorts before the shared one
C3_Witness ==
    /\ response.kind = "return"
    /\ Len(scored_chunks) >= 3
    /\ scored_chunks[1][2] = scored_chunks[2][2]
    /\ scored_chunks[3][2] = StrUnknown
    /\ response.body.evidence = <<StrUnknown, scored_chunks[1][2]>>

\* C5: a query that is empty after trimming is rejected with HTTP 400 and no
\* call to the model, the embedder or the vector store is made, for every
\* vendor_ids.
C5_EmptyQueryRejected ==
    (/\ data # None
     /\ \A i \in 1..Len(data.query) : data.query[i] \in Whitespace)
    => /\ pc = "done"
       /\ response.kind = "HTTPException"
       /\ response.status_code = 400
       /\ calls = <<>>

\* a whitespace-only query with a vendor list has been rejected
C5_Witness ==
    /\ data # None
    /\ data.query # <<>>
    /\ \A i \in 1..Len(data.query) : data.query[i] \in Whitespace
    /\ data.vendor_ids # <<>>
    /\ response.kind = "HTTPException"

\* positions of the search result whose score reaches the threshold
Survivors ==
    {i \in 1..Len(search_result) : search_result[i].score >= 10}

\* rank of position i among the surviving positions
SurvivorRank(i) == Cardinality({j \in Survivors : j < i}) + 1

\* the first three surviving positions
Kept == {i \in Survivors : SurvivorRank(i) <= 3}

KeptAt(n) == CHOOSE i \in Kept : SurvivorRank(i) = n

\* the reference context of the final prompt
SentContext == calls[4].messages[2].content.context

\* C6: the reference context is made of the texts of the first 3 (or fewer)
\* matches with score >= 0.10, in the order of the search result, and the
\* evidence holds exactly their sources; a match with score 0.10 is kept, a
\* match below 0.10 contributes nothing and takes none of the 3 places.
C6_FirstThreeSurvivors ==
    Len(calls) = 4
    => /\ SentContext =
              Join(ContextSeparator,
                   [n \in 1..Cardinality(Kept) |->
                      Get(search_result[KeptAt(n)].payload, "text", <<>>)])
       /\ response.kind = "return"
          => {response.body.evidence[k] :
                  k \in 1..Len(response.body.evidence)}
             = {Get(search_result[i].payload, "source", StrUnknown) :
                  i \in Kept}

\* a full verdict whose three kept matches include one scoring exactly 0.10
\* while a weaker match of the same search was discarded
C6_Witness ==
    /\ Len(calls) = 4
    /\ response.kind = "return"
    /\ Cardinality(Kept) = 3
    /\ \E i \in Kept : search_result[i].score = 10
    /\ \E j \in 1..Len(search_result) : search_result[j].score < 10

\* a full verdict for which more than three matches reached the threshold
C6_CutReached ==
    /\ Len(calls) = 4
    /\ response.kind = "return"
    /\ Cardinality(Survivors) > 3

\* the values listed in the request's vendor_ids
RequestedVendors == {data.vendor_ids[k] : k \in 1..Len(data.vendor_ids)}

\* C7: with a non-empty vendor_ids every match of the search (hence every
\* match used for context or evidence) is a stored point whose payload
\* vendor_id is one of the listed values, even when points of other vendors
\* score higher; with an empty vendor_ids the search is unfiltered.
C7_VendorRestriction ==
    SearchReturned
    => IF data.vendor_ids # <<>>
       THEN \A i \in 1..Len(search_result) :
               \E p \in store :
                  /\ p.id = search_result[i].id
                  /\ "vendor_id" \in DOMAIN p.payload
                  /\ p.payload["vendor_id"] \in RequestedVendors
       ELSE /\ calls[3].query_filter = None
            /\ Len(search_result) = Min(8, Cardinality(store))

\* a verdict for vendor X built from X's points while a point of vendor Y
\* scores higher than every match returned
C7_Witness ==
    /\ SearchReturned
    /\ data.vendor_ids = <<"X">>
    /\ response.kind = "return"
    /\ scored_chunks # <<>>
    /\ \E p \in store :
          /\ "vendor_id" \in DOMAIN p.payload
          /\ p.payload["vendor_id"] = "Y"
          /\ Similarity(calls[3].query_vector, p.vector)
               > search_result[1].score

\* C8 as stated: the filter is satisfiable only for a single vendor_id, so
\* every vendor_ids list with more than one element yields no match and the
\* "No relevant material found." verdict.
C8_AnyListOverOneMatchesNothing ==
    (SearchReturned /\ Len(data.vendor_ids) > 1)
    => /\ search_result = <<>>
       /\ response = [kind |-> "return",
                      body |-> [risk_level |-> "Low", evidence |-> <<>>,
                                summary |-> MsgNoMaterial]]

\* C8 amended: the filter is a conjunction of one vendor_id equality per
\* element of vendor_ids; a list naming two different vendors yields no match
\* and the "No relevant material found." verdict (a list repeating one value
\* behaves like the one-element list).
C8_DistinctVendorsMatchNothing ==
    /\ Len(calls) >= 3
       => IF data.vendor_ids = <<>>
          THEN calls[3].query_filter = None
          ELSE /\ DOMAIN calls[3].query_filter = {"must"}
               /\ Len(calls[3].query_filter.must) = Len(data.vendor_ids)
               /\ \A k \in 1..Len(data.vendor_ids) :
                     calls[3].query_filter.must[k]
                       = [key |-> "vendor_id", match |-> data.vendor_ids[k]]
    /\ (SearchReturned /\ Cardinality(RequestedVendors) > 1)
       => /\ search_result = <<>>
          /\ response = [kind |-> "return",
                         body |-> [risk_level |-> "Low", evidence |-> <<>>,
                                   summary |-> MsgNoMaterial]]

\* vendors X and Y are requested together, the collection holds points of
\* both, and the request ends with the empty-result verdict
C8_Witness ==
    /\ SearchReturned
    /\ data.vendor_ids = <<"X", "Y">>
    /\ \A v \in {"X", "Y"} :
          \E p \in store : "vendor_id" \in DOMAIN p.payload
                           /\ p.payload["vendor_id"] = v
    /\ response.kind = "return"

\* C9 as stated: every request that returns a verdict has called the model
\* twice, the embedder once and the vector store once.
C9_EveryVerdictTwoModelCalls ==
    response.kind = "return"
    => /\ CountCalls("llm") = 2
       /\ CountCalls("embed") = 1
       /\ CountCalls("search") = 1

\* C9 amended: every request that returns a verdict has called the embedder
\* once and the vector store once; it has called the model twice when some
\* match reached the threshold (full verdict) and once otherwise (the two
\* early-exit verdicts).
C9_VerdictCallCounts ==
    response.kind = "return"
    => /\ CountCalls("embed") = 1
       /\ CountCalls("search") = 1
       /\ CountCalls("llm") = IF Survivors # {} THEN 2 ELSE 1
       /\ \A i \in 1..Len(calls) : calls[i].outcome = "ok"

\* an early-exit verdict for weak matches, returned after one model call
C9_Witness ==
    /\ response.kind = "return"
    /\ search_result # <<>>
    /\ Survivors = {}
    /\ CountCalls("llm") = 1

\* the order in which analyze_risk reaches its collaborators
CallOrder == <<"llm", "embed", "search", "llm">>

\* C10: the external calls of a request happen in the order hypothetical
\* generation, embedding, search, final generation, each started only after
\* the previous one returned successfully; the searched vector is the
\* embedding of the paragraph the first model call returned; the final call
\* is made only after the search returned a match with score >= 0.10.
C10_CallOrder ==
    /\ Len(calls) <= Len(CallOrder)
    /\ \A i \in 1..Len(calls) :
          /\ calls[i].svc = CallOrder[i]
          /\ i < Len(calls) => calls[i].outcome = "ok"
    /\ Len(calls) >= 2 => calls[2].text = hypothetical_analysis
    /\ Len(calls) >= 3 => calls[3].query_vector = EmbedQuery(calls[2].text)
    /\ Len(calls) = 4 => \E i \in 1..Len(search_result) :
                            search_result[i].score >= 10

\* all four calls were made and returned, and the searched vector differs
\* from the embedding of the user query
C10_Witness ==
    /\ Len(calls) = 4
    /\ calls[4].outcome = "ok"
    /\ calls[3].query_vector # EmbedQuery(user_query)
    /\ response.kind = "return"

\* the message prefix that names the stage of the i-th call
StageMessage(i) ==
    IF calls[i].svc = "search" THEN "Vector DB search error: "
    ELSE IF i = 1 THEN "SSR generation error: " ELSE "LLM error: "

\* C11: when the hypothetical generation, the vector search or the final
\* generation fails, the request is over with an HTTP 500 whose detail is
\* the message of the failing stage followed by the cause; the failed call
\* is the last call made (no later call, no retry) and no verdict is
\* returned.
C11_FailureTerminal ==
    \A i \in 1..Len(calls) :
        (calls[i].svc \in {"llm", "search"} /\ calls[i].outcome = "raised")
        => /\ pc = "done"
           /\ i = Len(calls)
           /\ \A j \in 1..(i - 1) : calls[j].outcome = "ok"
           /\ response.kind = "HTTPException"
           /\ response.status_code = 500
           /\ response.detail = <<StageMessage(i)>> \o calls[i].error

\* the vector search failed on a non-empty collection after two successful
\* calls
C11_Witness ==
    /\ Len(calls) = 3
    /\ calls[3].outcome = "raised"
    /\ store # {}
    /\ response.kind = "HTTPException"

\* C12: every failed external call of assess, the embedding included, is
\* answered with an HTTP 500 whose detail carries the cause.
C12_EveryFailureIs500 ==
    \A i \in 1..Len(calls) :
        calls[i].outcome = "raised"
        => /\ response.kind = "HTTPException"
           /\ response.status_code = 500
           /\ response.detail[Len(response.detail)]
                 = calls[i].error[Len(calls[i].error)]

\* the terminal states of the pipeline the description lists
ListedTerminals ==
    {"client_error", "no_matches", "below_threshold", "ssr_failure",
     "search_failure", "llm_failure", "full_verdict"}

\* the request ended in the terminal state named k
InTerminal(k) ==
    /\ pc = "done"
    /\ CASE k = "client_error" ->
               /\ response.kind = "HTTPException"
               /\ response.status_code = 400
               /\ calls = <<>>
         [] k = "no_matches" ->
               /\ response.kind = "return"
               /\ Len(calls) = 3
               /\ search_result = <<>>
         [] k = "below_threshold" ->
               /\ response.kind = "return"
               /\ Len(calls) = 3
               /\ search_result # <<>>
         [] k = "ssr_failure" ->
               /\ response.kind = "HTTPException"
               /\ Len(calls) = 1
               /\ calls[1].outcome = "raised"
         [] k = "search_failure" ->
               /\ response.kind = "HTTPException"
               /\ Len(calls) = 3
               /\ calls[3].outcome = "raised"
         [] k = "llm_failure" ->
               /\ response.kind = "HTTPException"
               /\ Len(calls) = 4
               /\ calls[4].outcome = "raised"
         [] k = "full_verdict" ->
               /\ response.kind = "return"
               /\ Len(calls) = 4
               /\ calls[4].outcome = "ok"
         [] k = "uncaught" ->
               response.kind = "unhandled"

\* position of the handler along the pipeline
PcRank(p) ==
    CASE p = "idle" -> 0
      [] p = "ssr" -> 1
      [] p = "embed" -> 2
      [] p = "search" -> 3
      [] p = "llm" -> 4
      [] p = "done" -> 5

Filler(n) == [i \in 1..n |-> 120]

\* "", "High", "Low", "high", "low"
Keywords == {<<>>, StrHigh, StrLow, <<104, 105, 103, 104>>, <<108, 111, 119>>}

\* filler, keyword, filler, keyword, filler
ParseTexts ==
    {Filler(n) \o k1 \o Filler(m) \o k2 \o Filler(t) :
        n \in {0} \cup ((ScanWindow - PadSpan)..(ScanWindow + 2)),
        k1 \in Keywords, m \in 0..1, k2 \in Keywords, t \in 0..1}

InitParse ==
    /\ NoRequests
    /\ GatewayIdle
    /\ IngestIdle
    /\ store = {}
    /\ pc = "parse"
    /\ data = None
    /\ user_query = <<>>
    /\ vendor_ids = <<>>
    /\ hypothetical_analysis = <<>>
    /\ ssr_embedding = -1
    /\ search_result = <<>>
    /\ scored_chunks = <<>>
    /\ assessment_text \in ParseTexts
    /\ calls = <<>>
    /\ response = NoResponse

\* risk_level = parse_risk_assessment(assessment_text)
Parse ==
    /\ pc = "parse"
    /\ pc' = "parsed"
    /\ response' = [kind |-> "parsed",
                    risk_level |-> ParseRiskAssessment(assessment_text)]
    /\ UNCHANGED <<store, data, user_query, vendor_ids, hypothetical_analysis,
                   ssr_embedding, search_result, scored_chunks,
                   assessment_text, calls>>
    /\ UNCHANGED <<gatewayVars, ingestVars, concurrentVars>>

NextParse == Parse

SpecParse == InitParse /\ [][NextParse]_vars

\* the keyword kw stands in text t at a position that lies wholly within the
\* first 50 characters
KeywordInWindow(kw, t) ==
    \E i \in 1..Len(t) :
       /\ i + Len(kw) - 1 <= 50
       /\ i + Len(kw) - 1 <= Len(t)
       /\ \A k \in 1..Len(kw) : t[i + k - 1] = kw[k]

\* C4: the level is High if "High" occurs within the first 50 characters of
\* the text (also when "Low" occurs there too), else Low if "Low" occurs
\* there, else Moderate; texts with the same first 50 characters get the same
\* level, and a keyword at or beyond character 50 has no effect.
C4_LevelFromFirst50 ==
    pc = "parsed"
    => /\ response.risk_level =
             IF KeywordInWindow(StrHigh, assessment_text) THEN "High"
             ELSE IF KeywordInWindow(StrLow, assessment_text) THEN "Low"
             ELSE "Moderate"
       /\ \A u \in ParseTexts :
             (\A i \in 1..50 :
                 /\ i <= Len(u) <=> i <= Len(assessment_text)
                 /\ i <= Len(u) => u[i] = assessment_text[i])
             => ParseRiskAssessment(u) = response.risk_level

\* a text longer than 50 characters with "Low" inside the window and "High"
\* reaching past it is rated Low
C4_Witness ==
    /\ pc = "parsed"
    /\ Len(assessment_text) > 50
    /\ Contains(StrHigh, assessment_text)
    /\ KeywordInWindow(StrLow, assessment_text)
    /\ response.risk_level = "Low"

(***************************************************************************)
(* call_llm on its own: one HTTP exchange drawn from the bodies that the   *)
(* remote endpoint can send: every combination of the fields the code      *)
(* looks at in choices[0], with and without an error object, under a 2xx   *)
(* and a non-2xx status, and the exceptions of requests.post / r.json().   *)
(***************************************************************************)
\* a key that the dict does not have
Absent == [kind |-> "absent"]

\* a JSON array of content parts
PyList(parts) == [kind |-> "list", parts |-> parts]

\* the dict d with d[key] = v, or d itself when v is absent
With(d, key, v) == IF v = Absent THEN d ELSE (key :> v) @@ d

\* choices[0].message: none, a text "A", a null content, no content key
MessageValues ==
    {Absent, [content |-> PyStr(<<65>>)], [content |-> PyNone],
     [role |-> "assistant"]}

\* choices[0].text: none, a text "B", null
TextValues == {Absent, PyStr(<<66>>), PyNone}

\* choices[0].content: none, a text "C", parts "C" and "D", a part without
\* a text key before a part "D", a part with a null text, null
ContentValues ==
    {Absent, PyStr(<<67>>),
     PyList(<<[text |-> PyStr(<<67>>)], [text |-> PyStr(<<68>>)]>>),
     PyList(<<[type |-> "image_url"], [text |-> PyStr(<<68>>)]>>),
     PyList(<<[text |-> PyNone]>>),
     PyNone}

\* the fields every body has, without and with the error object
\* "rate limited"
BodyBases ==
    {[id |-> "gen-1"], [id |-> "gen-1", error |-> "rate limited"]}

\* the decoded bodies
GatewayBodies ==
    {[choices |-> <<With(With(With([index |-> 0], "message", m),
                                "text", t), "content", c)>>] @@ base :
        m \in MessageValues, t \in TextValues, c \in ContentValues,
        base \in BodyBases}
    \cup BodyBases
    \cup {[choices |-> <<>>] @@ base : base \in BodyBases}

\* the HTTP statuses of the remote endpoint
GatewayStatuses == {200, 429, 500}

\* what requests.post and r.json() raise
TransportCauses == {"ConnectionError", "Timeout", "JSONDecodeError"}

GatewayExchanges ==
    {[raised |-> FALSE, status |-> n, json |-> d] :
        n \in GatewayStatuses, d \in GatewayBodies}
    \cup {[raised |-> TRUE, cause |-> c] : c \in TransportCauses}

InitLLM ==
    /\ NoRequests
    /\ llm_exchange \in GatewayExchanges
    /\ llm_result = None
    /\ AssessIdle
    /\ IngestIdle
    /\ store = {}

\* lines 58-103: call_llm runs on the exchange
LLMCall ==
    /\ llm_exchange # None
    /\ llm_result = None
    /\ llm_result' = CallLLM(llm_exchange)
    /\ UNCHANGED <<store, assessVars, llm_exchange, ingestVars,
                   concurrentVars>>

NextLLM == LLMCall

SpecLLM == InitLLM /\ [][NextLLM]_vars

\* the text a field holds when it is a string, or a list of parts whose
\* text fields are strings (a part without text counts as "")
FieldText(v) ==
    IF v.kind = "str" THEN v
    ELSE IF v.kind = "list"
            /\ \A k \in 1..Len(v.parts) : PartTexts(v.parts)[k].kind = "str"
    THEN PyStr(JoinParts(PartTexts(v.parts)))
    ELSE Absent

\* the text of the first of the shapes (a), (b), (c) that the choice matches
FirstShapeText(choice) ==
    LET a == IF "message" \in DOMAIN choice
             THEN Get(choice["message"], "content", Absent) ELSE Absent
        b == Get(choice, "text", Absent)
        c == FieldText(Get(choice, "content", Absent))
    IN  IF a.kind = "str" THEN a
        ELSE IF b.kind = "str" THEN b
        ELSE c

\* C14: what call_llm returns is a string, the text of the first of the
\* shapes choices[0].message.content, choices[0].text, choices[0].content
\* (a string, or parts concatenated in order) that the response matches.
C14_FirstShapeString ==
    (llm_result # None /\ llm_result.ok)
    => /\ llm_result.value.kind = "str"
       /\ llm_result.value = FirstShapeText(llm_exchange.json["choices"][1])

\* why a call failed: the transport, an error object in the body, or a body
\* of no known shape
FailureCause(exchange) ==
    IF exchange.raised THEN "transport"
    ELSE IF "error" \in DOMAIN exchange.json THEN "remote"
    ELSE "format"

\* C15: failures of call_llm with different causes (transport, error object,
\* unknown format) are raised as different kinds of error, so the caller
\* can tell the causes apart by the kind.
C15_FailureKindsDistinct ==
    (llm_result # None /\ ~llm_result.ok)
    => \A other \in GatewayExchanges :
          (/\ ~CallLLM(other).ok
           /\ FailureCause(other) # FailureCause(llm_exchange))
          => CallLLM(other).type # llm_result.type

\* C16: a response with a non-2xx status makes call_llm fail, whatever its
\* body.
C16_Non2xxFails ==
    (/\ llm_result # None
     /\ ~llm_exchange.raised
     /\ llm_exchange.status \notin 200..299)
    => ~llm_result.ok

(***************************************************************************)
(* Ingestion and deletion: server/ingestion/utils extract_text_from_file,  *)
(* chunk_and_embed_document, delete_document_chunks.  A file is            *)
(* [ext |-> extension of file_path, body |-> what the reader library finds *)
(* in it].  One ingest runs at a time; deletes and one assess request      *)
(* interleave with it at every external call.                              *)
(***************************************************************************)
\* str.lower() on code points
Lower(t) ==
    [i \in 1..Len(t) |-> IF t[i] \in 65..90 THEN t[i] + 32 ELSE t[i]]

\* ".pdf", ".docx", ".txt"
ExtPdf == <<46, 112, 100, 102>>

ExtDocx == <<46, 100, 111, 99, 120>>

ExtTxt == <<46, 116, 120, 116>>

\* text += page.extract_text() + "\n" for each page
RECURSIVE PdfText(_)
PdfText(pages) ==
    IF pages = <<>> THEN <<>>
    ELSE Head(pages) \o <<10>> \o PdfText(Tail(pages))

\* an exception of type t whose str() is the pieces e
Raised(t, e) == [ok |-> FALSE, type |-> t, error |-> e]

\* extract_text_from_file(file_path)
ExtractTextFromFile(file) ==
    LET file_extension == Lower(file.ext)
        broken == "broken" \in DOMAIN file.body
    IN  IF file_extension = ExtPdf
        THEN IF broken
             THEN Raised("Exception",
                         <<"Error processing PDF: ", file.body.broken>>)
             ELSE [ok |-> TRUE, value |-> PdfText(file.body.pages)]
        ELSE IF file_extension = ExtDocx
        THEN IF broken
             THEN Raised("Exception",
                         <<"Error processing DOCX: ", file.body.broken>>)
             ELSE [ok |-> TRUE, value |-> file.body.value]
        ELSE IF file_extension = ExtTxt
        THEN IF broken
             THEN Raised("Exception",
                         <<"Error processing TXT: ", file.body.broken>>)
             ELSE [ok |-> TRUE, value |-> file.body.data]
        ELSE Raised("ValueError",
                    <<"Unsupported file type: ", file_extension>>)

\* the files given to ingest: a text file "hA", a text file " \n", a PDF
\* (".PDF") of two pages without text, a PDF of one page "hA", a DOCX that
\* mammoth cannot open, a file ".xyz"
Files ==
    {[ext |-> ExtTxt, body |-> [data |-> <<104, 65>>]],
     [ext |-> ExtTxt, body |-> [data |-> <<32, 10>>]],
     [ext |-> <<46, 80, 68, 70>>, body |-> [pages |-> <<<<>>, <<>>>>]],
     [ext |-> ExtPdf, body |-> [pages |-> << <<104, 65>> >>]],
     [ext |-> ExtDocx, body |-> [broken |-> "BadZipFile"]],
     [ext |-> <<46, 120, 121, 122>>, body |-> [data |-> <<104, 65>>]]}

\* the pieces text_splitter.split_text may return: "hA", " "
Pieces == {<<104, 65>>, <<32>>}

\* text_splitter.split_text(raw_text) is a library call: any sequence of at
\* most MaxChunks pieces, or an exception
SplitResults ==
    {[ok |-> TRUE, pieces |-> cs] :
        cs \in UNION {[1..n -> Pieces] : n \in 0..MaxChunks}}
    \cup {[ok |-> FALSE, error |-> "SplitterError"]}

\* (document_id, vendor_id, filename) of an ingest; filenames "a.pdf", "b.txt"
IngestArguments ==
    {[document_id |-> "d1", vendor_id |-> "X",
      filename |-> <<97, 46, 112, 100, 102>>],
     [document_id |-> "d1", vendor_id |-> "Y",
      filename |-> <<98, 46, 116, 120, 116>>],
     [document_id |-> "d2", vendor_id |-> "X",
      filename |-> <<97, 46, 112, 100, 102>>]}

DocumentIds == {a.document_id : a \in IngestArguments}

\* return [], "No text content extracted from document"
MsgNoText == [text |-> "No text content extracted from document"]

\* f"Successfully processed {len(points)} chunks"
MsgProcessed(n) == [text |-> "Successfully processed {} chunks", n |-> n]

\* return points, message
IngestReturn(pts, message) ==
    [kind |-> "return", points |-> pts, message |-> message]

\* raise Exception(f"Error processing document: {e}")
IngestRaised(e) ==
    [kind |-> "raised", type |-> "Exception",
     error |-> <<"Error processing document: ">> \o e]

\* the point built for chunk i, numbered from 1
ChunkPoint_OneBased(i, chunk, args, total, chunk_id) ==
    [id |-> chunk_id,
     vector |-> EmbedQuery(chunk),
     payload |-> [text |-> chunk,
                  document_id |-> args.document_id,
                  vendor_id |-> args.vendor_id,
                  filename |-> args.filename,
                  chunk_index |-> i + 1,
                  total_chunks |-> total,
                  source |-> args.filename]]

\* the point id is derived from the position of the chunk
ChunkPoint_IndexId(i, chunk, args, total, chunk_id) ==
    [id |-> i + 1,
     vector |-> EmbedQuery(chunk),
     payload |-> [text |-> chunk,
                  document_id |-> args.document_id,
                  vendor_id |-> args.vendor_id,
                  filename |-> args.filename,
                  chunk_index |-> i,
                  total_chunks |-> total,
                  source |-> args.filename]]

\* lines 178-195: the PointStruct built for chunk i
ChunkPoint(i, chunk, args, total, chunk_id) ==
    [id |-> chunk_id,
     vector |-> EmbedQuery(chunk),
     payload |-> [text |-> chunk,
                  document_id |-> args.document_id,
                  vendor_id |-> args.vendor_id,
                  filename |-> args.filename,
                  chunk_index |-> i,
                  total_chunks |-> total,
                  source |-> args.filename]]

IngestEmbedCall(chunk) ==
    [svc |-> "embed", text |-> chunk, outcome |-> "pending"]

UpsertCall(pts) == [svc |-> "upsert", points |-> pts, outcome |-> "pending"]

\* the first index i >= from (0-based) of a chunk with chunk.strip() true,
\* or len(chunks) when there is none
RECURSIVE NextChunk(_, _)
NextChunk(cs, from) ==
    IF from >= Len(cs) THEN Len(cs)
    ELSE IF Strip(cs[from + 1]) # <<>> THEN from
    ELSE NextChunk(cs, from + 1)

\* lines 175-205 from loop index "from" on: up to the next external call
\* (the embedding of the next non-blank chunk, or the upsert when points is
\* not empty) or to the return
Advance(cs, from, pts, log) ==
    LET i == NextChunk(cs, from)
    IN  IF i < Len(cs)
        THEN /\ ingest_pc' = "embed"
             /\ chunk_i' = i
             /\ ingest_calls' = Append(log, IngestEmbedCall(cs[i + 1]))
             /\ ingest_result' = NoResponse
        ELSE /\ chunk_i' = Len(cs)
             /\ IF pts # <<>>
                THEN /\ ingest_pc' = "upsert"
                     /\ ingest_calls' = Append(log, UpsertCall(pts))
                     /\ ingest_result' = NoResponse
                ELSE /\ ingest_pc' = "done"
                     /\ ingest_calls' = log
                     /\ ingest_result' = IngestReturn(<<>>, MsgProcessed(0))

\* the test "if not raw_text.strip()" is missing
IngestStart_NoBlankCheck(file, args, split) ==
    /\ ingest_pc \in {"idle", "done"}
    /\ ingest_run < MaxRuns
    /\ ingest_run' = ingest_run + 1
    /\ ingest_args' = args
    /\ points' = <<>>
    /\ LET r == ExtractTextFromFile(file)
       IN  IF ~r.ok
           THEN /\ raw_text' = PyNone
                /\ chunks' = <<>>
                /\ chunk_i' = 0
                /\ ingest_calls' = <<>>
                /\ ingest_pc' = "done"
                /\ ingest_result' = IngestRaised(r.error)
           ELSE IF ~split.ok
           THEN /\ raw_text' = PyStr(r.value)
                /\ chunks' = <<>>
                /\ chunk_i' = 0
                /\ ingest_calls' = <<>>
                /\ ingest_pc' = "done"
                /\ ingest_result' = IngestRaised(<<split.error>>)
           ELSE /\ raw_text' = PyStr(r.value)
                /\ chunks' = split.pieces
                /\ Advance(split.pieces, 0, <<>>, <<>>)
    /\ UNCHANGED concurrentVars
    /\ UNCHANGED <<store, assessVars, gatewayVars, next_id, last_op, batches>>

\* lines 154-176: chunk_and_embed_document is called; extract the text,
\* return at once on a blank text, else split it and go to the first chunk
\* to embed
IngestStart(file, args, split) ==
    /\ ingest_pc \in {"idle", "done"}
    /\ ingest_run < MaxRuns
    /\ ingest_run' = ingest_run + 1
    /\ ingest_args' = args
    /\ points' = <<>>
    /\ LET r == ExtractTextFromFile(file)
       IN  IF ~r.ok
           THEN /\ raw_text' = PyNone
                /\ chunks' = <<>>
                /\ chunk_i' = 0
                /\ ingest_calls' = <<>>
                /\ ingest_pc' = "done"
                /\ ingest_result' = IngestRaised(r.error)
           ELSE IF Strip(r.value) = <<>>
           THEN /\ raw_text' = PyStr(r.value)
                /\ chunks' = <<>>
                /\ chunk_i' = 0
                /\ ingest_calls' = <<>>
                /\ ingest_pc' = "done"
                /\ ingest_result' = IngestReturn(<<>>, MsgNoText)
           ELSE IF ~split.ok
           THEN /\ raw_text' = PyStr(r.value)
                /\ chunks' = <<>>
                /\ chunk_i' = 0
                /\ ingest_calls' = <<>>
                /\ ingest_pc' = "done"
                /\ ingest_result' = IngestRaised(<<split.error>>)
           ELSE /\ raw_text' = PyStr(r.value)
                /\ chunks' = split.pieces
                /\ Advance(split.pieces, 0, <<>>, <<>>)
    /\ UNCHANGED concurrentVars
    /\ UNCHANGED <<store, assessVars, gatewayVars, next_id, last_op, batches>>

\* qdrant.upsert(points): a point replaces the stored point of the same id
Upsert(collection, pts) ==
    {p \in collection : \A k \in 1..Len(pts) : pts[k].id # p.id}
    \cup {pts[k] : k \in 1..Len(pts)}

\* the record of a batch the collection accepted
Batch(pts) ==
    [run |-> ingest_run,
     ids |-> {pts[k].id : k \in 1..Len(pts)},
     document_id |-> ingest_args.document_id,
     vendor_id |-> ingest_args.vendor_id,
     filename |-> ingest_args.filename]

\* each point is upserted as soon as it is built
IngestEmbedReturn_UpsertEach(ok) ==
    /\ ingest_pc = "embed"
    /\ IF ok
       THEN LET point == ChunkPoint(chunk_i, chunks[chunk_i + 1], ingest_args,
                                    Len(chunks), next_id)
            IN  /\ points' = Append(points, point)
                /\ next_id' = next_id + 1
                /\ store' = Upsert(store, <<point>>)
                /\ Advance(chunks, chunk_i + 1, Append(points, point),
                           SetOutcome(ingest_calls, "ok"))
       ELSE /\ points' = points
            /\ next_id' = next_id
            /\ store' = store
            /\ chunk_i' = chunk_i
            /\ ingest_calls' = SetRaised(ingest_calls, <<"EmbeddingError">>)
            /\ ingest_pc' = "done"
            /\ ingest_result' = IngestRaised(<<"EmbeddingError">>)
    /\ UNCHANGED concurrentVars
    /\ UNCHANGED <<assessVars, gatewayVars, ingest_args, raw_text,
                   chunks, ingest_run, last_op, batches>>

\* when an embedding fails, the points built so far are upserted
IngestEmbedReturn_FlushOnError(ok) ==
    /\ ingest_pc = "embed"
    /\ IF ok
       THEN LET point == ChunkPoint(chunk_i, chunks[chunk_i + 1], ingest_args,
                                    Len(chunks), next_id)
            IN  /\ points' = Append(points, point)
                /\ next_id' = next_id + 1
                /\ store' = store
                /\ Advance(chunks, chunk_i + 1, Append(points, point),
                           SetOutcome(ingest_calls, "ok"))
       ELSE /\ points' = points
            /\ next_id' = next_id
            /\ store' = Upsert(store, points)
            /\ chunk_i' = chunk_i
            /\ ingest_calls' = SetRaised(ingest_calls, <<"EmbeddingError">>)
            /\ ingest_pc' = "done"
            /\ ingest_result' = IngestRaised(<<"EmbeddingError">>)
    /\ UNCHANGED concurrentVars
    /\ UNCHANGED <<assessVars, gatewayVars, ingest_args, raw_text,
                   chunks, ingest_run, last_op, batches>>

\* lines 176-196: embedder.embed_query(chunk) ends; on success build the
\* point with a fresh uuid4 and go on to the next chunk, or to the upsert
IngestEmbedReturn(ok) ==
    /\ ingest_pc = "embed"
    /\ IF ok
       THEN LET point == ChunkPoint(chunk_i, chunks[chunk_i + 1], ingest_args,
                                    Len(chunks), next_id)
            IN  /\ points' = Append(points, point)
                /\ next_id' = next_id + 1
                /\ Advance(chunks, chunk_i + 1, Append(points, point),
                           SetOutcome(ingest_calls, "ok"))
       ELSE /\ points' = points
            /\ next_id' = next_id
            /\ chunk_i' = chunk_i
            /\ ingest_calls' = SetRaised(ingest_calls, <<"EmbeddingError">>)
            /\ ingest_pc' = "done"
            /\ ingest_result' = IngestRaised(<<"EmbeddingError">>)
    /\ UNCHANGED concurrentVars
    /\ UNCHANGED <<store, assessVars, gatewayVars, ingest_args, raw_text,
                   chunks, ingest_run, last_op, batches>>

\* lines 199-208: qdrant.upsert ends.  The collection takes the batch in
\* one step, or refuses it and raises.
IngestUpsertReturn(ok) ==
    /\ ingest_pc = "upsert"
    /\ ingest_pc' = "done"
    /\ store' = IF ok THEN Upsert(store, points) ELSE store
    /\ batches' = IF ok THEN batches \cup {Batch(points)} ELSE batches
    /\ last_op' = [op |-> "upsert", document_id |-> ingest_args.document_id,
                   ok |-> ok]
    /\ IF ok
       THEN /\ ingest_calls' = SetOutcome(ingest_calls, "ok")
            /\ ingest_result' = IngestReturn(points,
                                             MsgProcessed(Len(points)))
       ELSE /\ ingest_calls' = SetRaised(ingest_calls,
                                         <<"UnexpectedResponse">>)
            /\ ingest_result' = IngestRaised(<<"UnexpectedResponse">>)
    /\ UNCHANGED concurrentVars
    /\ UNCHANGED <<assessVars, gatewayVars, ingest_args, raw_text, chunks,
                   chunk_i, points, ingest_run, next_id>>

\* the filter selects on the vendor_id key
DocumentFilter_ByVendor(document_id) ==
    [must |-> <<[key |-> "vendor_id", match |-> document_id]>>]

\* lines 217-224: Filter(must=[FieldCondition(key="document_id", ...)])
DocumentFilter(document_id) ==
    [must |-> <<[key |-> "document_id", match |-> document_id]>>]

\* the delete empties the collection
DeletePoints_All(collection, filter) == {}

\* qdrant.delete(points_selector=filter)
DeletePoints(collection, filter) ==
    {p \in collection : ~FilterHolds(filter, p.payload)}

\* delete_document_chunks(qdrant_client, collection_name, document_id); the
\* one external call is qdrant.delete
Delete(document_id, ok) ==
    /\ store' = IF ok
                THEN DeletePoints(store, DocumentFilter(document_id))
                ELSE store
    /\ last_op' =
          [op |-> "delete", document_id |-> document_id, ok |-> ok,
           result |-> IF ok
                      THEN [kind |-> "return",
                            value |-> <<TRUE,
                                  "Document chunks deleted successfully">>]
                      ELSE [kind |-> "raised", type |-> "Exception",
                            error |-> <<"Error deleting document chunks: ",
                                        "UnexpectedResponse">>]]
    /\ UNCHANGED concurrentVars
    /\ UNCHANGED <<assessVars, gatewayVars, ingest_pc, ingest_args, raw_text,
                   chunks, chunk_i, points, ingest_calls, ingest_result,
                   ingest_run, next_id, batches>>

\* the collection is empty after construction (src/test.py)
InitStore ==
    /\ NoRequests
    /\ store = {}
    /\ AssessIdle
    /\ GatewayIdle
    /\ IngestIdle

\* the one assess request that runs beside the writes: query "q", no
\* vendor, answers in the choices[0].message.content shape
StoreQuery == <<113>>

SsrAnswer ==
    [raised |-> FALSE, status |-> 200,
     json |-> [choices |-> <<[message |-> [content |-> PyStr(<<104, 65>>)]]>>]]

FinalAnswer ==
    [raised |-> FALSE, status |-> 200,
     json |-> [choices |-> <<[message |-> [content |-> PyStr(StrLow)]]>>]]

NextStore ==
    \/ \E file \in Files, args \in IngestArguments, split \in SplitResults :
          IngestStart(file, args, split)
    \/ \E ok \in BOOLEAN : IngestEmbedReturn(ok)
    \/ \E ok \in BOOLEAN : IngestUpsertReturn(ok)
    \/ \E d \in DocumentIds, ok \in BOOLEAN : Delete(d, ok)
    \/ Receive(StoreQuery, <<>>)
    \/ SSRReturn(SsrAnswer)
    \/ EmbedReturn(TRUE)
    \/ SearchReturn
    \/ LLMReturn(FinalAnswer)

SpecStore == InitStore /\ [][NextStore]_vars

(***************************************************************************)
(* Properties of ingestion and deletion.                                   *)
(***************************************************************************)
StoredIds == {p.id : p \in store}

\* the ids of the points the running (or last) ingest has built
BuiltIds == {points[k].id : k \in 1..Len(points)}

\* C17: when chunk_and_embed_document is called on a file whose extracted
\* text has no non-whitespace character, the call ends at once with the
\* result ([], "No text content extracted from document"): nothing was
\* split, no embedding and no upsert call was made, the collection is as it
\* was.
C17_BlankTextZeroChunks ==
    [][(/\ ingest_run' # ingest_run
        /\ raw_text'.kind = "str"
        /\ \A i \in 1..Len(raw_text'.value) :
              raw_text'.value[i] \in Whitespace)
       => /\ ingest_pc' = "done"
          /\ ingest_result' = [kind |-> "return", points |-> <<>>,
                               message |-> MsgNoText]
          /\ chunks' = <<>>
          /\ ingest_calls' = <<>>
          /\ store' = store]_vars

\* an ingest of a file with a blank, non-empty text ended with the
\* zero-chunk result while the collection held points of an earlier ingest
C17_Witness ==
    /\ ingest_pc = "done"
    /\ raw_text.kind = "str"
    /\ raw_text.value # <<>>
    /\ \A i \in 1..Len(raw_text.value) : raw_text.value[i] \in Whitespace
    /\ ingest_result.kind = "return"
    /\ ingest_calls = <<>>
    /\ store # {}

\* 0 <= chunk_index < total_chunks in every stored chunk
ChunkIndexInRange ==
    \A p \in store :
        /\ 0 <= p.payload["chunk_index"]
        /\ p.payload["chunk_index"] < p.payload["total_chunks"]

\* C18 as stated: after any ingests and deletes every stored chunk has
\* 0 <= chunk_index < total_chunks, and two stored chunks with the same
\* document_id have the same vendor_id and the same filename.
C18_SameDocumentSameVendor ==
    /\ ChunkIndexInRange
    /\ \A p, q \in store :
          p.payload["document_id"] = q.payload["document_id"]
          => /\ p.payload["vendor_id"] = q.payload["vendor_id"]
             /\ p.payload["filename"] = q.payload["filename"]

\* every accepted ingest of document d was given the same vendor_id and
\* filename
OneVendorPerDocument(d) ==
    \A b1, b2 \in batches :
        (b1.document_id = d /\ b2.document_id = d)
        => (b1.vendor_id = b2.vendor_id /\ b1.filename = b2.filename)

\* C18, amended: every stored chunk has 0 <= chunk_index < total_chunks;
\* two stored chunks with the same document_id have the same vendor_id and
\* filename when every ingest of that document_id was given the same
\* vendor_id and filename (chunks written by one ingest always agree).
C18_ChunkPayloadPerIngest ==
    /\ ChunkIndexInRange
    /\ \A p, q \in store :
          (/\ p.payload["document_id"] = q.payload["document_id"]
           /\ OneVendorPerDocument(p.payload["document_id"]))
          => /\ p.payload["vendor_id"] = q.payload["vendor_id"]
             /\ p.payload["filename"] = q.payload["filename"]
    /\ \A b \in batches : \A p, q \in store :
          (p.id \in b.ids /\ q.id \in b.ids)
          => /\ p.payload["document_id"] = q.payload["document_id"]
             /\ p.payload["vendor_id"] = q.payload["vendor_id"]
             /\ p.payload["filename"] = q.payload["filename"]

\* the collection holds chunks of one document written by two ingests that
\* were given the same vendor_id and filename, one of them of two chunks
C18_Witness ==
    \E b1, b2 \in batches :
        /\ b1.run # b2.run
        /\ b1.document_id = b2.document_id
        /\ OneVendorPerDocument(b1.document_id)
        /\ Cardinality(b1.ids) = 2
        /\ b1.ids \cup b2.ids \subseteq StoredIds

\* C19: right after a successful delete of a document_id that was ingested
\* successfully before, the collection holds no chunk with that document_id
\* and a search filtered on that document_id returns no hit for any query
\* vector, whatever else was ingested.
C19_DeletedDocumentGone ==
    (/\ last_op.op = "delete"
     /\ last_op.ok
     /\ \E b \in batches : b.document_id = last_op.document_id)
    => /\ \A p \in store :
             p.payload["document_id"] # last_op.document_id
       /\ \A v \in 0..(EmbedSpace - 1) :
             Search(store, v, SearchLimit,
                    DocumentFilter(last_op.document_id)) = {<<>>}

\* document d1 was ingested and then deleted while chunks of d2, ingested
\* before the delete, stay in the collection
C19_Witness ==
    /\ last_op.op = "delete"
    /\ last_op.ok
    /\ last_op.document_id = "d1"
    /\ \E b \in batches : b.document_id = "d1"
    /\ \E p \in store : p.payload["document_id"] = "d2"

\* C20: chunk_and_embed_document makes one upsert call, after the last
\* embedding, with all the points it built; in every state the collection
\* holds either all points of a batch or none of them, and it holds no
\* point of an ingest that is still running or that failed; so the ranking
\* a search returns (when it is not cut by the limit) has all chunks of an
\* ingestion or none.
C20_NoPartialWrite ==
    /\ \A i \in 1..Len(ingest_calls) :
          ingest_calls[i].svc = "upsert"
          => /\ i = Len(ingest_calls)
             /\ ingest_calls[i].points = points
             /\ chunk_i = Len(chunks)
             /\ \A j \in 1..(i - 1) :
                   /\ ingest_calls[j].svc = "embed"
                   /\ ingest_calls[j].outcome = "ok"
    /\ \A p \in store : \E b \in batches : p.id \in b.ids
    /\ \A b \in batches :
          b.ids \cap StoredIds = {} \/ b.ids \subseteq StoredIds
    /\ (ingest_pc \in {"embed", "upsert"} \/ ingest_result.kind = "raised")
       => BuiltIds \cap StoredIds = {}
    /\ (SearchReturned /\ Len(search_result) < SearchLimit)
       => LET seen == {search_result[k].id : k \in 1..Len(search_result)}
          IN  /\ \A b \in batches : b.ids \cap seen = {} \/ b.ids \subseteq seen
              /\ ingest_pc \in {"embed", "upsert"} => BuiltIds \cap seen = {}

\* a search returned the chunks of an earlier ingest while the next ingest
\* had built its two points and was waiting for its upsert
C20_Witness ==
    /\ SearchReturned
    /\ search_result # <<>>
    /\ pc = "llm"
    /\ ingest_pc = "upsert"
    /\ Len(points) = 2

\* C21: a failure inside chunk_and_embed_document reaches the caller as it
\* was raised: an unsupported extension as a ValueError whose message names
\* the extension, a failed embedding or upsert call as the very error the
\* collaborator raised.
C21_FailuresKeepKind ==
    ingest_result.kind = "raised"
    => /\ (ingest_calls # <<>>
           /\ ingest_calls[Len(ingest_calls)].outcome = "raised")
          => ingest_result.error = ingest_calls[Len(ingest_calls)].error
       /\ (ingest_calls = <<>>
           /\ "Unsupported file type: " \in
                 {ingest_result.error[k] : k \in 1..2})
          => /\ ingest_result.type = "ValueError"
             /\ ingest_result.error[1] = "Unsupported file type: "

(***************************************************************************)
(* Several analyze_risk requests at once (routes/rag.py).  The handler is  *)
(* a plain def, so FastAPI runs each request in a worker thread; a request *)
(* is the record of its locals, and a step runs one request from one       *)
(* external call to the next.  got is the list of the answers the request  *)
(* received from its collaborators.                                        *)
(***************************************************************************)
\* a request that has not entered the handler
IdleRequest ==
    [pc |-> "idle", data |-> None, user_query |-> <<>>, vendor_ids |-> <<>>,
     hypothetical_analysis |-> <<>>, ssr_embedding |-> -1,
     search_result |-> <<>>, scored_chunks |-> <<>>,
     response |-> NoResponse, got |-> <<>>]

\* the request ends with the response resp
Ended(r, resp) == [r EXCEPT !.pc = "done", !.response = resp]

\* lines 11-21 for one request
OnReceive(r, query, vids) ==
    LET entered == [r EXCEPT !.data = [query |-> query, vendor_ids |-> vids],
                             !.user_query = Strip(query),
                             !.vendor_ids = vids]
    IN  IF Strip(query) = <<>>
        THEN Ended(entered, HTTPException(400, <<"Query cannot be empty.">>))
        ELSE [entered EXCEPT !.pc = "ssr"]

\* the paragraph another request obtained for the same query is used in
\* place of the answer to this request's own call
OnSSRReturn_Cached(r, exchange) ==
    LET res == CallLLM(exchange)
        heard == [r EXCEPT !.got =
                     Append(@, [svc |-> "llm", exchange |-> exchange])]
        cached == {j \in DOMAIN requests :
                      /\ requests[j].user_query = r.user_query
                      /\ requests[j].hypothetical_analysis # <<>>}
    IN  IF res.ok /\ res.value.kind = "str"
        THEN [heard EXCEPT !.pc = "embed",
                 !.hypothetical_analysis =
                     IF cached # {}
                     THEN requests[CHOOSE j \in cached : TRUE]
                              .hypothetical_analysis
                     ELSE res.value.value]
        ELSE IF res.ok
        THEN Ended(heard, Unhandled("AttributeError"))
        ELSE Ended(heard, HTTPException(500,
                             <<"SSR generation error: ">> \o res.error))

\* lines 20-26 for one request
OnSSRReturn(r, exchange) ==
    LET res == CallLLM(exchange)
        heard == [r EXCEPT !.got =
                     Append(@, [svc |-> "llm", exchange |-> exchange])]
    IN  IF res.ok /\ res.value.kind = "str"
        THEN [heard EXCEPT !.pc = "embed",
                           !.hypothetical_analysis = res.value.value]
        ELSE IF res.ok
        THEN Ended(heard, Unhandled("AttributeError"))
        ELSE Ended(heard, HTTPException(500,
                             <<"SSR generation error: ">> \o res.error))

\* lines 26-47 for one request
OnEmbedReturn(r, ok) ==
    LET heard == [r EXCEPT !.got = Append(@, [svc |-> "embed", ok |-> ok])]
    IN  IF ok
        THEN [heard EXCEPT !.pc = "search",
                 !.ssr_embedding = EmbedQuery(r.hypothetical_analysis)]
        ELSE Ended(heard, Unhandled("EmbeddingError"))

\* lines 41-87 for one request, the search returned hits
OnSearchOk(r, hits) ==
    LET heard == [r EXCEPT !.search_result = hits,
                     !.got = Append(@, [svc |-> "search", ok |-> TRUE,
                                        hits |-> hits])]
    IN  IF hits = <<>>
        THEN Ended(heard, NoMaterialVerdict)
        ELSE IF ScoredChunks(hits) = <<>>
        THEN Ended([heard EXCEPT !.scored_chunks = <<>>], NotRelevantVerdict)
        ELSE [heard EXCEPT !.scored_chunks = ScoredChunks(hits),
                           !.pc = "llm"]

\* lines 41-49 for one request, the search raised
OnSearchRaised(r, e) ==
    Ended([r EXCEPT !.got = Append(@, [svc |-> "search", ok |-> FALSE,
                                       error |-> e])],
          HTTPException(500, <<"Vector DB search error: ", e>>))

\* lines 83-106 for one request
OnLLMReturn(r, exchange) ==
    LET res == CallLLM(exchange)
        heard == [r EXCEPT !.got =
                     Append(@, [svc |-> "llm", exchange |-> exchange])]
    IN  IF res.ok /\ res.value.kind = "str"
        THEN Ended(heard, Verdict(ParseRiskAssessment(res.value.value),
                                  Evidence(r.scored_chunks),
                                  res.value.value))
        ELSE IF res.ok
        THEN Ended(heard, Unhandled("TypeError"))
        ELSE Ended(heard, HTTPException(500,
                             <<"LLM error: ">> \o res.error))

\* the collection the concurrent requests read: empty, or three points
ConcurrentStores == {{}, {CandidatePoint(i) : i \in 1..3}}

\* "q", " "
ConcurrentQueries == {<<113>>, <<32>>}

ConcurrentVendorIds == {<<>>, <<"X">>}

InitConcurrent ==
    /\ requests = [i \in 1..NumRequests |-> IdleRequest]
    /\ store \in ConcurrentStores
    /\ AssessIdle
    /\ GatewayIdle
    /\ IngestIdle

\* request i runs from its current external call to the next one
StepRequest(i, query, vids, exchange, ok) ==
    LET r == requests[i]
    IN  /\ r.pc # "done"
        /\ \/ /\ r.pc = "idle"
              /\ requests' = [requests EXCEPT
                                 ![i] = OnReceive(r, query, vids)]
           \/ /\ r.pc = "ssr"
              /\ requests' = [requests EXCEPT
                                 ![i] = OnSSRReturn(r, exchange)]
           \/ /\ r.pc = "embed"
              /\ requests' = [requests EXCEPT ![i] = OnEmbedReturn(r, ok)]
           \/ /\ r.pc = "search"
              /\ \/ \E hits \in Search(store, r.ssr_embedding, SearchLimit,
                                       VendorFilter(r.vendor_ids)) :
                       requests' = [requests EXCEPT
                                       ![i] = OnSearchOk(r, hits)]
                 \/ \E e \in SearchErrors :
                       requests' = [requests EXCEPT
                                       ![i] = OnSearchRaised(r, e)]
           \/ /\ r.pc = "llm"
              /\ requests' = [requests EXCEPT
                                 ![i] = OnLLMReturn(r, exchange)]
        /\ UNCHANGED <<store, assessVars, gatewayVars, ingestVars>>

NextConcurrent ==
    \E i \in 1..NumRequests, query \in ConcurrentQueries,
       vids \in ConcurrentVendorIds, exchange \in Exchanges(HypoTexts),
       ok \in BOOLEAN :
        StepRequest(i, query, vids, exchange, ok)

SpecConcurrent == InitConcurrent /\ [][NextConcurrent]_vars

\* what analyze_risk answers to the request input when it runs on its own,
\* reads the collection S and receives the answers got
AnswerAlone(input, got, S) ==
    LET query == Strip(input.query)
        ssr == CallLLM(got[1].exchange)
        vector == EmbedQuery(ssr.value.value)
        hits == got[3].hits
        kept == ScoredChunks(hits)
        final == CallLLM(got[4].exchange)
    IN  IF query = <<>>
        THEN HTTPException(400, <<"Query cannot be empty.">>)
        ELSE IF ~ssr.ok
        THEN HTTPException(500, <<"SSR generation error: ">> \o ssr.error)
        ELSE IF ssr.value.kind # "str"
        THEN Unhandled("AttributeError")
        ELSE IF ~got[2].ok
        THEN Unhandled("EmbeddingError")
        ELSE IF ~got[3].ok
        THEN HTTPException(500, <<"Vector DB search error: ", got[3].error>>)
        ELSE IF hits \notin Search(S, vector, SearchLimit,
                               VendorFilter(input.vendor_ids))
        THEN [kind |-> "not a ranking of the collection"]
        ELSE IF hits = <<>>
        THEN NoMaterialVerdict
        ELSE IF kept = <<>>
        THEN NotRelevantVerdict
        ELSE IF ~final.ok
        THEN HTTPException(500, <<"LLM error: ">> \o final.error)
        ELSE IF final.value.kind # "str"
        THEN Unhandled("TypeError")
        ELSE Verdict(ParseRiskAssessment(final.value.value),
                     Evidence(kept), final.value.value)

\* C22: whatever the interleaving of the requests, a request that ended has
\* the answer analyze_risk gives on its own to the same input, the same
\* collection and the same answers of the collaborators; and no step of a
\* request changes the collection or any state outside that request.
C22_RequestsIndependent ==
    /\ [](\A i \in DOMAIN requests :
             requests[i].pc = "done"
             => requests[i].response =
                   AnswerAlone(requests[i].data, requests[i].got, store))
    /\ [][/\ store' = store
          /\ \A i, j \in DOMAIN requests :
                (i # j /\ requests'[i] # requests[i])
                => requests'[j] = requests[j]]_vars

\* two requests with the same query ended with different verdicts: they
\* received different paragraphs, and their final calls were answered in
\* the opposite order of their arrival
C22_Witness ==
    /\ requests # <<>>
    /\ requests[1].pc = "done"
    /\ requests[2].pc = "done"
    /\ requests[1].data = requests[2].data
    /\ requests[1].response.kind = "return"
    /\ requests[2].response.kind = "return"
    /\ requests[1].hypothetical_analysis # requests[2].hypothetical_analysis
    /\ requests[1].response # requests[2].response

\* C23: the n chunks one successful ingest stored carry the chunk_index
\* values 0, 1, ..., n-1, in the order in which they were built, and all
\* carry total_chunks = n, the number of chunks stored and reported.
C23_SequentialIndices ==
    \A b \in batches :
        b.ids \subseteq StoredIds
        => LET written == {p \in store : p.id \in b.ids}
               n == Cardinality(written)
           IN  /\ {p.payload["chunk_index"] : p \in written} = 0..(n - 1)
               /\ \A p \in written : p.payload["total_chunks"] = n
               /\ \A p, q \in written :
                     p.id < q.id
                     => p.payload["chunk_index"] < q.payload["chunk_index"]

\* C24: a successful delete_document_chunks(document_id) removes the stored
\* chunks whose document_id is the argument and no other, leaves every
\* other chunk as it was, and returns (True, "Document chunks deleted
\* successfully"); when no stored chunk has that document_id the collection
\* stays as it was and the call still succeeds.
C24_DeleteExactlyTheDocument ==
    [][(last_op' # last_op /\ last_op'.op = "delete" /\ last_op'.ok)
       => /\ store' = {p \in store :
                          p.payload["document_id"] # last_op'.document_id}
          /\ (\A p \in store :
                 p.payload["document_id"] # last_op'.document_id)
             => store' = store
          /\ last_op'.result.kind = "return"
          /\ last_op'.result.value[1] = TRUE]_vars

\* document d2, never ingested, was deleted with success while the
\* collection holds the chunks of d1
C24_Witness ==
    /\ last_op.op = "delete"
    /\ last_op.ok
    /\ last_op.document_id = "d2"
    /\ \A b \in batches : b.document_id = "d1"
    /\ store # {}

\* the ingest made an upsert call
UpsertCalled ==
    \E i \in 1..Len(ingest_calls) : ingest_calls[i].svc = "upsert"

\* C25: an ingest that fails in the extraction, in the splitting or in the
\* embedding of a chunk (the last one included) has written nothing: the
\* step that starts it and each step that ends one of its embeddings leave
\* the collection as it was, and once it failed none of the points it built
\* is in the collection and no batch of it was accepted.
C25_FailedIngestWritesNothing ==
    /\ []((ingest_result.kind = "raised" /\ ~UpsertCalled)
          => /\ BuiltIds \cap StoredIds = {}
             /\ \A b \in batches : b.run # ingest_run)
    /\ [][(\/ ingest_run' # ingest_run
           \/ (ingest_pc = "embed" /\ ingest_calls' # ingest_calls))
          => store' = store]_vars

\* the embedding of the second and last chunk failed after the first point
\* was built, while the collection holds the chunks of an earlier ingest
C25_Witness ==
    /\ ingest_result.kind = "raised"
    /\ Len(chunks) = 2
    /\ chunk_i = 1
    /\ Len(points) = 1
    /\ ingest_calls[Len(ingest_calls)].outcome = "raised"
    /\ store # {}

\* C26: a successful ingest only adds points: the ids of its points are in
\* no earlier batch and not in the collection, every point stored before is
\* still stored unchanged, and the collection grows by the number of points
\* built; so two ingests of one document_id leave two disjoint sets of
\* chunks, and a successful delete of that document_id leaves none of
\* either set.
C26_IngestOnlyAdds ==
    /\ [](/\ \A b1, b2 \in batches : b1 # b2 => b1.ids \cap b2.ids = {}
          /\ (last_op.op = "delete" /\ last_op.ok)
             => \A b \in batches :
                   b.document_id = last_op.document_id
                   => b.ids \cap StoredIds = {})
    /\ [][(/\ ingest_pc = "upsert"
           /\ ingest_pc' = "done"
           /\ ingest_result'.kind = "return")
          => /\ BuiltIds \cap StoredIds = {}
             /\ store \subseteq store'
             /\ Cardinality(store') = Cardinality(store) + Len(points)]_vars

\* document d1 was ingested twice with success, its two sets of chunks were
\* in the collection together, and one delete of d1 removed both
C26_Witness ==
    /\ last_op.op = "delete"
    /\ last_op.ok
    /\ last_op.document_id = "d1"
    /\ \E b1, b2 \in batches :
          /\ b1.run # b2.run
          /\ b1.document_id = "d1"
          /\ b2.document_id = "d1"
    /\ store = {}

(***************************************************************************)
(* analyze_risk of server/api/main.py beside analyze_risk of               *)
(* server/api/routes/rag.py.  main.py posts to the gateway itself and      *)
(* reads the answer with resp["choices"][0]["message"]["content"].strip(). *)
(* requests[1] is a request run by rag.py, requests[2] the same request    *)
(* run by main.py; each step gives both the same answer of the same        *)
(* collaborator.                                                           *)
(***************************************************************************)
\* an exception raised inside the try of a model call of main.py; e is
\* str(e) in pieces
MainRaised(e) == [ok |-> FALSE, error |-> e]

\* requests.post(...).json() then
\* ["choices"][0]["message"]["content"].strip()
MainContent(exchange) ==
    IF exchange.raised THEN MainRaised(<<exchange.cause>>)
    ELSE LET resp == exchange.json
         IN  IF "choices" \notin DOMAIN resp
             THEN MainRaised(<<"'choices'">>)
             ELSE IF resp["choices"] = <<>>
             THEN MainRaised(<<"list index out of range">>)
             ELSE IF "message" \notin DOMAIN resp["choices"][1]
             THEN MainRaised(<<"'message'">>)
             ELSE IF "content" \notin DOMAIN resp["choices"][1]["message"]
             THEN MainRaised(<<"'content'">>)
             ELSE LET content == resp["choices"][1]["message"]["content"]
                  IN  IF content.kind = "str"
                      THEN [ok |-> TRUE, value |-> Strip(content.value)]
                      ELSE IF content.kind = "null"
                      THEN MainRaised(
                         <<"'NoneType' object has no attribute 'strip'">>)
                      ELSE MainRaised(
                         <<"'list' object has no attribute 'strip'">>)

\* main.py lines 535-551
MainOnReceive(r, query, vids) ==
    LET entered == [r EXCEPT !.data = [query |-> query, vendor_ids |-> vids],
                             !.user_query = Strip(query),
                             !.vendor_ids = vids]
    IN  IF Strip(query) = <<>>
        THEN Ended(entered, HTTPException(400, <<"Query cannot be empty.">>))
        ELSE [entered EXCEPT !.pc = "ssr"]

\* main.py lines 552-570
MainOnSSRReturn(r, exchange) ==
    LET res == MainContent(exchange)
        heard == [r EXCEPT !.got =
                     Append(@, [svc |-> "llm", exchange |-> exchange])]
    IN  IF res.ok
        THEN [heard EXCEPT !.pc = "embed",
                           !.hypothetical_analysis = res.value]
        ELSE Ended(heard, HTTPException(500,
                             <<"SSR generation error: ">> \o res.error))

\* main.py lines 573-594
MainOnEmbedReturn(r, ok) ==
    LET heard == [r EXCEPT !.got = Append(@, [svc |-> "embed", ok |-> ok])]
    IN  IF ok
        THEN [heard EXCEPT !.pc = "search",
                 !.ssr_embedding = EmbedQuery(r.hypothetical_analysis)]
        ELSE Ended(heard, Unhandled("EmbeddingError"))

\* main.py lines 588-640, the search returned hits
MainOnSearchOk(r, hits) ==
    LET heard == [r EXCEPT !.search_result = hits,
                     !.got = Append(@, [svc |-> "search", ok |-> TRUE,
                                        hits |-> hits])]
    IN  IF hits = <<>>
        THEN Ended(heard, NoMaterialVerdict)
        ELSE IF ScoredChunks(hits) = <<>>
        THEN Ended([heard EXCEPT !.scored_chunks = <<>>], NotRelevantVerdict)
        ELSE [heard EXCEPT !.scored_chunks = ScoredChunks(hits),
                           !.pc = "llm"]

\* main.py lines 588-596, the search raised
MainOnSearchRaised(r, e) ==
    Ended([r EXCEPT !.got = Append(@, [svc |-> "search", ok |-> FALSE,
                                       error |-> e])],
          HTTPException(500, <<"Vector DB search error: ", e>>))

\* main.py lines 643-685
MainOnLLMReturn(r, exchange) ==
    LET res == MainContent(exchange)
        heard == [r EXCEPT !.got =
                     Append(@, [svc |-> "llm", exchange |-> exchange])]
    IN  IF res.ok
        THEN Ended(heard, Verdict(ParseRiskAssessment(res.value),
                                  Evidence(r.scored_chunks), res.value))
        ELSE Ended(heard, HTTPException(500, <<"LLM error: ">> \o res.error))

\* "hA", "hB", " hA" followed by a newline, " Low": texts the model may
\* generate
TwinTexts == HypoTexts \cup {<<32, 104, 65, 10>>, <<32, 76, 111, 119>>}

InitTwin ==
    /\ requests = <<IdleRequest, IdleRequest>>
    /\ store \in ConcurrentStores
    /\ AssessIdle
    /\ GatewayIdle
    /\ IngestIdle

\* both handlers receive the request
TwinReceive(query, vids) ==
    /\ requests[1].pc = "idle"
    /\ requests' = <<OnReceive(requests[1], query, vids),
                     MainOnReceive(requests[2], query, vids)>>
    /\ UNCHANGED <<store, assessVars, gatewayVars, ingestVars>>

\* the first model call of both handlers gets the same HTTP exchange
TwinSSRReturn(exchange) ==
    /\ \E i \in 1..2 : requests[i].pc = "ssr"
    /\ requests' =
          <<IF requests[1].pc = "ssr"
            THEN OnSSRReturn(requests[1], exchange) ELSE requests[1],
            IF requests[2].pc = "ssr"
            THEN MainOnSSRReturn(requests[2], exchange) ELSE requests[2]>>
    /\ UNCHANGED <<store, assessVars, gatewayVars, ingestVars>>

\* the embedding call of both handlers succeeds, or fails, alike
TwinEmbedReturn(ok) ==
    /\ \E i \in 1..2 : requests[i].pc = "embed"
    /\ requests' =
          <<IF requests[1].pc = "embed"
            THEN OnEmbedReturn(requests[1], ok) ELSE requests[1],
            IF requests[2].pc = "embed"
            THEN MainOnEmbedReturn(requests[2], ok) ELSE requests[2]>>
    /\ UNCHANGED <<store, assessVars, gatewayVars, ingestVars>>

\* the search of both handlers gets the same result: a ranking of the
\* collection for the vector of one of them, or the same error
TwinSearchReturn ==
    /\ \E i \in 1..2 : requests[i].pc = "search"
    /\ \/ \E i \in {j \in 1..2 : requests[j].pc = "search"} :
            \E hits \in Search(store, requests[i].ssr_embedding, SearchLimit,
                               VendorFilter(requests[i].vendor_ids)) :
               requests' =
                  <<IF requests[1].pc = "search"
                    THEN OnSearchOk(requests[1], hits) ELSE requests[1],
                    IF requests[2].pc = "search"
                    THEN MainOnSearchOk(requests[2], hits) ELSE requests[2]>>
       \/ \E e \in SearchErrors :
            requests' =
               <<IF requests[1].pc = "search"
                 THEN OnSearchRaised(requests[1], e) ELSE requests[1],
                 IF requests[2].pc = "search"
                 THEN MainOnSearchRaised(requests[2], e) ELSE requests[2]>>
    /\ UNCHANGED <<store, assessVars, gatewayVars, ingestVars>>

\* the final model call of both handlers gets the same HTTP exchange
TwinLLMReturn(exchange) ==
    /\ \E i \in 1..2 : requests[i].pc = "llm"
    /\ requests' =
          <<IF requests[1].pc = "llm"
            THEN OnLLMReturn(requests[1], exchange) ELSE requests[1],
            IF requests[2].pc = "llm"
            THEN MainOnLLMReturn(requests[2], exchange) ELSE requests[2]>>
    /\ UNCHANGED <<store, assessVars, gatewayVars, ingestVars>>

NextTwin ==
    \/ \E query \in Queries, vids \in ConcurrentVendorIds :
          TwinReceive(query, vids)
    \/ \E exchange \in Exchanges(TwinTexts) : TwinSSRReturn(exchange)
    \/ \E ok \in BOOLEAN : TwinEmbedReturn(ok)
    \/ TwinSearchReturn
    \/ \E exchange \in Exchanges(TwinTexts) : TwinLLMReturn(exchange)

SpecTwin == InitTwin /\ [][NextTwin]_vars

\* the model call answered with a str in choices[0].message.content
ContentShape(g) ==
    /\ g.svc = "llm"
    /\ ~g.exchange.raised
    /\ "choices" \in DOMAIN g.exchange.json
    /\ g.exchange.json["choices"][1]["message"]["content"].kind = "str"

\* C27: when every model response came as a str in
\* choices[0].message.content, with or without surrounding whitespace, and
\* both handlers got the same search result, the handler of main.py and
\* the handler of routes/rag.py end in the same terminal state with the
\* same risk_level, evidence and summary.
C27_SameObservableResult ==
    (/\ requests[1].pc = "done"
     /\ requests[2].pc = "done"
     /\ \A k \in DOMAIN requests[1].got :
           requests[1].got[k].svc = "llm" => ContentShape(requests[1].got[k]))
    => requests[1].response = requests[2].response

====
